---- MODULE Spec2Model ----
(***************************************************************************)
(* Model of cinder/cmd/volume_usage_audit.py: the audit runner resolves    *)
(* the audit window, fetches the volumes, snapshots and backups active in  *)
(* it, and emits usage notifications for every fetched record.             *)
(*                                                                         *)
(* Time: every timestamp of a run lies in the minute "2024-03-01 00:00",   *)
(* so a datetime is its seconds field t plus its tzinfo.  A start_time /   *)
(* end_time option is the text of that seconds field, a sequence of        *)
(* characters; strptime parses it and str() formats a datetime back.       *)
(***************************************************************************)
EXTENDS Integers, Sequences, FiniteSets, TLC

VARIABLES
    CONF,         \* the parsed command-line options
    period,       \* what utils.last_completed_audit_period() returns
    stored,       \* how many records the storage layer holds for this run
    pc,           \* "window", "run", "done", "exited" (sys.exit), "raised"
    kind,         \* how many of the three list queries have returned
    found,        \* len() of each list a query returned
    i,            \* position of obj_ref in its list (0: no iteration yet)
    obj_ref,      \* the loop variable: the record of the latest iteration
    begin, end,   \* the resolved window
    extra_info,   \* the window's ExtraInfo
    calls,        \* every collaborator call made so far, in order
    exit_status   \* <<>> while running, <<status>> once the process ended

vars == <<CONF, period, stored, pc, kind, found, i, obj_ref, begin, end,
          extra_info, calls, exit_status>>

(* ------------------------------ bounds --------------------------------- *)
\* timestamps range over seconds 0..MaxT
MaxT == 2
\* the storage layer holds at most MaxRecs records for the three list queries
\* of one run (variable stored)
MaxRecs == 2
\* the notification emitters raise at most MaxFail times in one run
MaxFail == 1

(* ----------------------------- datetimes -------------------------------- *)
T == 0..MaxT

Naive(t) == [t |-> t, tz |-> "naive"]
Aware(t) == [t |-> t, tz |-> "UTC"]
\* Python's None where a datetime may stand (deleted_at, begin/end before
\* they are assigned)
NoneDT == [t |-> 0, tz |-> "None"]

\* faulty variant: the zone is left as it was
ReplaceTzKeep(dt) == dt

\* datetime.replace(tzinfo=iso8601.UTC): the fields are kept, the zone is set
ReplaceTzUTC(dt) == [dt EXCEPT !.tz = "UTC"]

\* faulty variant: the window check lets end = begin through
LeStrict(a, b) == a.t < b.t

\* comparisons of two aware datetimes
Lt(a, b) == a.t < b.t
Le(a, b) == a.t <= b.t

TwoDigits(n) == IF n < 10 THEN "0" \o ToString(n) ELSE ToString(n)

\* faulty variant: the UTC offset is left out
StrNoOffset(dt) ==
    IF dt.tz = "None" THEN "None"
    ELSE "2024-03-01 00:00:" \o TwoDigits(dt.t)

\* str(datetime): "YYYY-MM-DD HH:MM:SS", then "+00:00" when tz-aware
Str(dt) ==
    IF dt.tz = "None" THEN "None"
    ELSE "2024-03-01 00:00:" \o TwoDigits(dt.t)
           \o (IF dt.tz = "UTC" THEN "+00:00" ELSE "")

(* ------------------------- option texts, strptime ----------------------- *)
Digits == <<"0", "1", "2", "3", "4", "5", "6", "7", "8", "9">>
IsDigit(c) == \E d \in 1..10 : Digits[d] = c
DigitVal(c) == (CHOOSE d \in 1..10 : Digits[d] = c) - 1

\* an option of type StrOpt: None (the default) or a text
NoneOpt == [none |-> TRUE, s |-> <<>>]
Text(s) == [none |-> FALSE, s |-> s]
\* Python truthiness of the option: None and "" are false
Truthy(opt) == ~opt.none /\ Len(opt.s) > 0

\* the text str() gives the seconds field of second t
SecondsText(t) == <<Digits[(t \div 10) + 1], Digits[(t % 10) + 1]>>

\* datetime.strptime(text, "%Y-%m-%d %H:%M:%S") on the seconds field: one or
\* two digits, 0..59, give a naive datetime; anything else is a ValueError
Strptime(s) ==
    IF Len(s) \in 1..2 /\ \A n \in 1..Len(s) : IsDigit(s[n])
    THEN LET v == IF Len(s) = 1 THEN DigitVal(s[1])
                  ELSE 10 * DigitVal(s[1]) + DigitVal(s[2])
         IN  IF v <= 59 THEN [ok |-> TRUE, dt |-> Naive(v)]
             ELSE [ok |-> FALSE, dt |-> NoneDT]
    ELSE [ok |-> FALSE, dt |-> NoneDT]

\* sys.exit(code): the process status is the code's low byte
SysExit(code) == code % 256

(* ------------------------------ records --------------------------------- *)
\* faulty variant: the snapshots block stands before the volumes block
KindOrderSwapped == <<"snapshot", "volume", "backup">>

\* order of the three blocks of main
KindOrder == <<"volume", "snapshot", "backup">>
NKinds == Len(KindOrder)

\* a Resource Record: created_at is set, deleted_at is None or not before it.
\* The list queries belong to the storage layer: nothing is assumed here of
\* how a returned record lies with respect to the window.
Records ==
    { [created_at |-> Aware(c), deleted_at |-> NoneDT] : c \in T }
    \cup { r \in { [created_at |-> Aware(c), deleted_at |-> Aware(d)] :
                        c \in T, d \in T } :
              r.created_at.t <= r.deleted_at.t }

\* the loop variable before the first iteration
NoRecord == [created_at |-> NoneDT, deleted_at |-> NoneDT]

Events == {"exists", "create.start", "create.end", "delete.start",
           "delete.end"}

NoInfo == [audit_period_beginning |-> "", audit_period_ending |-> ""]

\* one call of a collaborator, as the run's call log keeps it
FetchCall(k, b, e, ok) ==
    [op |-> "get_all_active_by_window", kind |-> KindOrder[k], idx |-> 0,
     event |-> "", info |-> NoInfo, ok |-> ok, b |-> b, e |-> e]
NotifyCall(k, idx, event, info, ok) ==
    [op |-> "notify", kind |-> KindOrder[k], idx |-> idx, event |-> event,
     info |-> info, ok |-> ok, b |-> NoneDT, e |-> NoneDT]

(* ------------------------ the notification steps ------------------------ *)
\* _vol_notify_usage / _snap_notify_usage / _backup_notify_usage: one
\* 'exists' emission inside try/except Exception; f[event] is whether the
\* emitter returns (TRUE) or raises (FALSE)
NotifyUsage(k, idx, info, f) ==
    <<NotifyCall(k, idx, "exists", info, f["exists"])>>

\* faulty variant: the ending field is taken from deleted_at
CreateActionDeletedEnd(k, idx, rec, f) ==
    LET local_extra_info ==
            [audit_period_beginning |-> Str(rec.created_at),
             audit_period_ending |-> Str(rec.deleted_at)]
    IN  <<NotifyCall(k, idx, "create.start", local_extra_info,
                     f["create.start"])>>
        \o (IF f["create.start"]
            THEN <<NotifyCall(k, idx, "create.end", local_extra_info,
                              f["create.end"])>>
            ELSE <<>>)

\* _create_action: both emissions stand in one try block, so a raise of
\* create.start skips create.end; the except clause logs and returns
CreateAction(k, idx, rec, f) ==
    LET local_extra_info ==
            [audit_period_beginning |-> Str(rec.created_at),
             audit_period_ending |-> Str(rec.created_at)]
    IN  <<NotifyCall(k, idx, "create.start", local_extra_info,
                     f["create.start"])>>
        \o (IF f["create.start"]
            THEN <<NotifyCall(k, idx, "create.end", local_extra_info,
                              f["create.end"])>>
            ELSE <<>>)

\* faulty variant: each emission has a try block of its own
DeleteActionBoth(k, idx, rec, f) ==
    LET local_extra_info ==
            [audit_period_beginning |-> Str(rec.deleted_at),
             audit_period_ending |-> Str(rec.deleted_at)]
    IN  <<NotifyCall(k, idx, "delete.start", local_extra_info,
                     f["delete.start"]),
          NotifyCall(k, idx, "delete.end", local_extra_info,
                     f["delete.end"])>>

\* _delete_action: as _create_action, with deleted_at
DeleteAction(k, idx, rec, f) ==
    LET local_extra_info ==
            [audit_period_beginning |-> Str(rec.deleted_at),
             audit_period_ending |-> Str(rec.deleted_at)]
    IN  <<NotifyCall(k, idx, "delete.start", local_extra_info,
                     f["delete.start"])>>
        \o (IF f["delete.start"]
            THEN <<NotifyCall(k, idx, "delete.end", local_extra_info,
                              f["delete.end"])>>
            ELSE <<>>)

\* faulty variant: the bounds are included
InWindowInclusive(b, ts, e) == Le(b, ts) /\ Le(ts, e)

\* begin < ts < end
InWindow(b, ts, e) == Lt(b, ts) /\ Lt(ts, e)

\* the test guarding _create_action
CreateCond(b, rec, e) == InWindow(b, rec.created_at, e)
\* the test guarding _delete_action: deleted_at is truthy and in the window
DeleteCond(b, rec, e) ==
    rec.deleted_at.tz # "None" /\ InWindow(b, rec.deleted_at, e)

\* faulty variant: the send_actions flag is not looked at
ObjRefActionAlways(k, idx, rec, info, b, e, send_actions, f) ==
    NotifyUsage(k, idx, info, f)
    \o (IF CreateCond(b, rec, e) THEN CreateAction(k, idx, rec, f) ELSE <<>>)
    \o (IF DeleteCond(b, rec, e) THEN DeleteAction(k, idx, rec, f) ELSE <<>>)

\* _obj_ref_action: the calls made for one record, in order
ObjRefAction(k, idx, rec, info, b, e, send_actions, f) ==
    NotifyUsage(k, idx, info, f)
    \o (IF send_actions
        THEN (IF CreateCond(b, rec, e) THEN CreateAction(k, idx, rec, f)
              ELSE <<>>)
             \o (IF DeleteCond(b, rec, e) THEN DeleteAction(k, idx, rec, f)
                 ELSE <<>>)
        ELSE <<>>)

(* ------------------------------- inputs --------------------------------- *)
\* the texts an operator may give for start_time / end_time
OptionValues ==
    {NoneOpt, Text(<<>>), Text(<<"0", "x">>)}
    \cup { Text(SecondsText(t)) : t \in T }

\* utils.last_completed_audit_period(): a naive (begin, end) with begin < end
DefaultPeriods ==
    { p \in { <<Naive(b), Naive(e)>> : b \in T, e \in T } : p[1].t < p[2].t }

\* any option texts and any default period, the storage layer holding at
\* most one record
InitOptions ==
    /\ CONF \in [start_time : OptionValues, end_time : OptionValues,
                 send_actions : BOOLEAN]
    /\ period \in DefaultPeriods
    /\ stored = 1

\* no override, or the overrides "...:00" and "...:02", the storage layer
\* holding up to MaxRecs records
InitRecords ==
    /\ CONF \in { [start_time |-> o[1], end_time |-> o[2], send_actions |-> a] :
                    o \in { <<NoneOpt, NoneOpt>>,
                            <<Text(SecondsText(0)), Text(SecondsText(2))>> },
                    a \in BOOLEAN }
    /\ period = <<Naive(1), Naive(2)>>
    /\ stored = MaxRecs

\* the state when main is entered: the options are parsed, nothing is
\* resolved, fetched or emitted
Init ==
    /\ InitOptions \/ InitRecords
    /\ pc = "window"
    /\ kind = 0
    /\ found = [k \in 1..NKinds |-> 0]
    /\ i = 0
    /\ obj_ref = NoRecord
    /\ begin = NoneDT
    /\ end = NoneDT
    /\ extra_info = NoInfo
    /\ calls = <<>>
    /\ exit_status = <<>>

(* ------------------------------- actions -------------------------------- *)
\* an exception nothing catches ends the process with status 1
Raise ==
    /\ pc' = "raised"
    /\ exit_status' = <<1>>

\* begin, end = _time_error(LOG, *last_completed_audit_period()), and the
\* extra_info built from the result
TimeError ==
    /\ pc = "window"
    /\ LET ps == Strptime(CONF.start_time.s)
           pe == Strptime(CONF.end_time.s)
           b0 == IF Truthy(CONF.start_time) THEN ps.dt ELSE period[1]
           e0 == IF Truthy(CONF.end_time) THEN pe.dt ELSE period[2]
           b == ReplaceTzUTC(b0)
           e == ReplaceTzUTC(e0)
       IN  IF \/ Truthy(CONF.start_time) /\ ~ps.ok
              \/ Truthy(CONF.end_time) /\ ~pe.ok
           THEN /\ Raise
                /\ UNCHANGED <<begin, end, extra_info>>
           ELSE IF Le(e, b)
           THEN /\ pc' = "exited"
                /\ exit_status' = <<SysExit(-1)>>
                /\ UNCHANGED <<begin, end, extra_info>>
           ELSE /\ pc' = "run"
                /\ begin' = b
                /\ end' = e
                /\ extra_info' = [audit_period_beginning |-> Str(b),
                                  audit_period_ending |-> Str(e)]
                /\ UNCHANGED exit_status
    /\ UNCHANGED <<CONF, period, stored, kind, found, i, obj_ref, calls>>

\* the records the queries have returned so far
Fetched == found[1] + found[2] + found[3]

\* the running for loop has nothing left to iterate over (or no list has
\* been fetched yet)
LoopOver == IF kind = 0 THEN TRUE ELSE i = found[kind]

\* <Kind>List.get_all_active_by_window(admin_context, begin, end) for kind k,
\* reached when the loop of the kind before is over: it returns a list or
\* raises.  The list's length is drawn here; the fields of each of its
\* records are drawn when the loop reads the record.
Fetch(k) ==
    /\ pc = "run"
    /\ kind = k - 1
    /\ LoopOver
    /\ \/ \E n \in 0..(stored - Fetched) :
            /\ found' = [found EXCEPT ![k] = n]
            /\ calls' = Append(calls, FetchCall(k, begin, end, TRUE))
            /\ kind' = k
            /\ i' = 0
            /\ UNCHANGED <<pc, exit_status>>
       \/ /\ calls' = Append(calls, FetchCall(k, begin, end, FALSE))
          /\ Raise
          /\ UNCHANGED <<kind, found, i>>
    /\ UNCHANGED <<CONF, period, stored, obj_ref, begin, end, extra_info>>

FetchVolumes == Fetch(1)
FetchSnapshots == Fetch(2)
FetchBackups == Fetch(3)

\* the emissions of a call log that raised
Failures(cs) ==
    Cardinality({ n \in DOMAIN cs : cs[n].op = "notify" /\ ~cs[n].ok })

\* faulty variant: nothing catches an emitter's exception, the first one ends the run
LoopNoCatch(k) ==
    /\ pc = "run"
    /\ kind = k
    /\ i < found[k]
    /\ \E rec \in Records, f \in [Events -> BOOLEAN] :
          LET made == ObjRefAction(k, i + 1, rec, extra_info, begin, end,
                                   CONF.send_actions, f)
              upto == IF \E n \in DOMAIN made : ~made[n].ok
                      THEN CHOOSE n \in DOMAIN made :
                               /\ ~made[n].ok
                               /\ \A m \in 1..(n - 1) : made[m].ok
                      ELSE Len(made)
          IN  /\ Failures(calls \o made) <= MaxFail
              /\ calls' = calls \o SubSeq(made, 1, upto)
              /\ obj_ref' = rec
              /\ IF upto < Len(made) \/ ~made[upto].ok
                 THEN Raise
                 ELSE UNCHANGED <<pc, exit_status>>
    /\ i' = i + 1
    /\ UNCHANGED <<CONF, period, stored, kind, found, begin, end, extra_info>>

\* one iteration of the loop over kind k: _obj_ref_action on the next record
Loop(k) ==
    /\ pc = "run"
    /\ kind = k
    /\ i < found[k]
    /\ \E rec \in Records, f \in [Events -> BOOLEAN] :
          LET made == ObjRefAction(k, i + 1, rec, extra_info, begin, end,
                                   CONF.send_actions, f)
          IN  /\ Failures(calls \o made) <= MaxFail
              /\ calls' = calls \o made
              /\ obj_ref' = rec
    /\ i' = i + 1
    /\ UNCHANGED <<CONF, period, stored, pc, kind, found, begin, end,
                   extra_info, exit_status>>

VolumesLoop == Loop(1)
SnapshotsLoop == Loop(2)
BackupsLoop == Loop(3)

\* faulty variant: main returns once the backups are fetched
CompletedEarly ==
    /\ pc = "run"
    /\ kind = NKinds
    /\ pc' = "done"
    /\ exit_status' = <<0>>
    /\ UNCHANGED <<CONF, period, stored, kind, found, i, obj_ref, begin,
                   end, extra_info, calls>>

\* main returns after the backups loop: exit status 0
Completed ==
    /\ pc = "run"
    /\ kind = NKinds
    /\ LoopOver
    /\ pc' = "done"
    /\ exit_status' = <<0>>
    /\ UNCHANGED <<CONF, period, stored, kind, found, i, obj_ref, begin,
                   end, extra_info, calls>>

Next ==
    \/ TimeError
    \/ FetchVolumes
    \/ VolumesLoop
    \/ FetchSnapshots
    \/ SnapshotsLoop
    \/ FetchBackups
    \/ BackupsLoop
    \/ Completed

Spec == Init /\ [][Next]_vars

(* ===================== properties of the audit runner =================== *)
\* position of a kind name in the order volumes, snapshots, backups
Rank(name) == CASE name = "volume" -> 1 [] name = "snapshot" -> 2
                [] name = "backup" -> 3

\* the emitter calls made for the n-th record of the kind named kn
CallsFor(kn, n) ==
    SelectSeq(calls, LAMBDA c : c.op = "notify" /\ c.kind = kn /\ c.idx = n)

\* obj_ref holds a record and Made is what was emitted for it
HasRecord == kind >= 1 /\ i >= 1
Made == IF HasRecord THEN CallsFor(KindOrder[kind], i) ELSE <<>>
MadeEvents == [n \in DOMAIN Made |-> Made[n].event]

\* the records whose iteration is over: <<k, n>> is the n-th of the k-th kind
Processed ==
    { r \in (1..NKinds) \X (1..MaxRecs) :
         /\ r[2] <= found[r[1]]
         /\ r[1] < kind \/ (r[1] = kind /\ r[2] <= i) }

Terminated == pc \in {"done", "exited", "raised"}

\* what str() shows of an aware datetime of second t (t < 10)
Shown(t) == "2024-03-01 00:00:0" \o ToString(t) \o "+00:00"

\* the second an option text names
Named(opt, t) == opt = Text(SecondsText(t))

\* an unhandled exception comes from strptime (nothing called yet) or from
\* a list query (the last call made), never from an emitter
RaisedByParseOrFetch ==
    pc = "raised" =>
        \/ calls = <<>>
        \/ /\ calls[Len(calls)].op = "get_all_active_by_window"
           /\ ~calls[Len(calls)].ok

(* ---- C1 ---------------------------------------------------------------- *)
\* C1: when both overrides are given and the end override names a second
\* not after the start override's, no list query and no emitter is ever
\* called, and once the window is resolved the process has exited with a
\* non-zero status.
C1_InvalidWindowExits ==
    \A bt \in T, et \in T :
        (Named(CONF.start_time, bt) /\ Named(CONF.end_time, et) /\ et <= bt)
        => /\ calls = <<>>
           /\ pc # "window" => /\ pc = "exited"
                               /\ Len(exit_status) = 1
                               /\ exit_status[1] # 0

\* an exit on overrides naming the same second
C1_Witness ==
    /\ pc = "exited"
    /\ \E t \in T : Named(CONF.start_time, t) /\ Named(CONF.end_time, t)

(* ---- C2 ---------------------------------------------------------------- *)
\* C2: whatever emissions failed before, every record whose iteration is
\* over had its exists notification attempted, the record just processed
\* had create.start / delete.start attempted when its timestamps call for
\* them, a completed run has processed every fetched record, and no run is
\* ended by an emitter's failure.
C2_FailuresDoNotStopLaterRecords ==
    /\ \A r \in Processed :
          \E n \in DOMAIN calls :
              /\ calls[n].op = "notify"
              /\ calls[n].kind = KindOrder[r[1]]
              /\ calls[n].idx = r[2]
              /\ calls[n].event = "exists"
    /\ (HasRecord /\ CONF.send_actions) =>
          /\ (begin.t < obj_ref.created_at.t /\ obj_ref.created_at.t < end.t)
                => \E n \in DOMAIN Made : Made[n].event = "create.start"
          /\ (/\ obj_ref.deleted_at.tz # "None"
              /\ begin.t < obj_ref.deleted_at.t
              /\ obj_ref.deleted_at.t < end.t)
                => \E n \in DOMAIN Made : Made[n].event = "delete.start"
    /\ pc = "done" =>
          \A k \in 1..NKinds, n \in 1..MaxRecs :
              n <= found[k] => <<k, n>> \in Processed
    /\ RaisedByParseOrFetch

\* a completed run in which an emission failed and a later record, of a
\* later kind, still had its exists notification attempted
C2_Witness ==
    /\ pc = "done"
    /\ \E m \in DOMAIN calls, n \in DOMAIN calls :
          /\ m < n
          /\ calls[m].op = "notify" /\ ~calls[m].ok
          /\ calls[n].op = "notify" /\ calls[n].event = "exists"
          /\ calls[n].kind # calls[m].kind

(* ---- C3 ---------------------------------------------------------------- *)
\* C3: every processed record has exactly one exists call, made before any
\* other call for that record, carrying the window as str() shows it; with
\* send_actions off it is the record's only call.
C3_OneExistsFirstWithWindow ==
    \A r \in Processed :
        LET cs == CallsFor(KindOrder[r[1]], r[2])
        IN  /\ Len(cs) >= 1
            /\ cs[1].event = "exists"
            /\ \A n \in 2..Len(cs) : cs[n].event # "exists"
            /\ \E b \in T, e \in T :
                  /\ begin = Aware(b) /\ end = Aware(e)
                  /\ cs[1].info = [audit_period_beginning |-> Shown(b),
                                   audit_period_ending |-> Shown(e)]
            /\ ~CONF.send_actions => Len(cs) = 1

\* the example of the specification, in seconds: window 0..2, send_actions
\* off, a volume created at second 1 and not deleted
C3_Witness ==
    /\ HasRecord /\ kind = 1
    /\ ~CONF.send_actions
    /\ begin = Aware(0) /\ end = Aware(2)
    /\ obj_ref = [created_at |-> Aware(1), deleted_at |-> NoneDT]
    /\ Len(Made) = 1

(* ---- C4 ---------------------------------------------------------------- *)
\* the create.* calls made for obj_ref, in order
CreateCalls ==
    SelectSeq(Made, LAMBDA c : c.event \in {"create.start", "create.end"})
\* the delete.* calls made for obj_ref, in order
DeleteCalls ==
    SelectSeq(Made, LAMBDA c : c.event \in {"delete.start", "delete.end"})

CreatedInside ==
    begin.t < obj_ref.created_at.t /\ obj_ref.created_at.t < end.t
DeletedInside ==
    /\ obj_ref.deleted_at.tz # "None"
    /\ begin.t < obj_ref.deleted_at.t /\ obj_ref.deleted_at.t < end.t

CreatedInfo ==
    [audit_period_beginning |-> Shown(obj_ref.created_at.t),
     audit_period_ending |-> Shown(obj_ref.created_at.t)]

C5_StrictBounds ==
    HasRecord =>
        /\ Len(CreateCalls) > 0 => CreatedInside
        /\ Len(DeleteCalls) > 0 => DeletedInside

\* send_actions on and a record deleted exactly at begin: exists only
C5_Witness ==
    /\ HasRecord /\ CONF.send_actions
    /\ obj_ref.deleted_at = begin
    /\ MadeEvents = <<"exists">>

(* ---- C6 ---------------------------------------------------------------- *)
\* C6 as stated: one emitter call per record with send_actions off, at most
\* three with it on.
C6_Original ==
    HasRecord => IF CONF.send_actions THEN Len(Made) <= 3 ELSE Len(Made) = 1

\* C6 amended: one emitter call per record with send_actions off; with it
\* on at most five, and at most three unless created_at and deleted_at both
\* lie strictly inside the window.
C6_Amended ==
    HasRecord =>
        IF CONF.send_actions
        THEN /\ Len(Made) <= 5
             /\ ~(CreatedInside /\ DeletedInside) => Len(Made) <= 3
        ELSE Len(Made) = 1

\* a record created and deleted inside the window, all five calls made
C6_Witness ==
    /\ HasRecord /\ CreatedInside /\ DeletedInside
    /\ Len(Made) = 5

BeginIs(t) == IF Truthy(CONF.start_time) THEN Named(CONF.start_time, t)
              ELSE period[1].t = t
EndIs(t) == IF Truthy(CONF.end_time) THEN Named(CONF.end_time, t)
            ELSE period[2].t = t

\* C8: once the window is resolved its bounds are the overrides made UTC,
\* each override applied on its own and the default period filling in for
\* the one not given; the list queries get exactly these bounds; and the
\* run exits on the window check exactly when the resulting end is not
\* after the resulting begin.
C8_WindowIsOverrides ==
    /\ (pc \in {"run", "done"} \/ calls # <<>>) =>
          \E b \in T, e \in T :
              /\ BeginIs(b) /\ EndIs(e) /\ b < e
              /\ begin = Aware(b) /\ end = Aware(e)
              /\ extra_info = [audit_period_beginning |-> Shown(b),
                               audit_period_ending |-> Shown(e)]
              /\ \A n \in DOMAIN calls :
                    calls[n].op = "get_all_active_by_window"
                        => calls[n].b = Aware(b) /\ calls[n].e = Aware(e)
    /\ pc = "exited" => \E b \in T, e \in T : BeginIs(b) /\ EndIs(e) /\ e <= b

\* only start_time given: the three queries ran with the default end
C8_Witness ==
    /\ pc = "done"
    /\ Truthy(CONF.start_time) /\ CONF.end_time = NoneOpt
    /\ begin.t # period[1].t /\ end.t = period[2].t
    /\ found[1] = 1

(* ---- C9 ---------------------------------------------------------------- *)
\* C9: the calls come kind by kind in the order volumes, snapshots, backups;
\* a kind's first call is its list query, made once, after the query of the
\* kind before returned and all that kind's records were processed; a list
\* query that raises is the run's last call and ends the run, the earlier
\* calls staying made.
C9_KindsInOrderFetchFatal ==
    /\ \A m \in DOMAIN calls, n \in DOMAIN calls :
          m < n =>
              /\ Rank(calls[m].kind) <= Rank(calls[n].kind)
              /\ calls[n].op = "get_all_active_by_window"
                    => Rank(calls[m].kind) < Rank(calls[n].kind)
    /\ \A n \in DOMAIN calls :
          LET c == calls[n]
          IN  /\ (c.op = "notify" \/ Rank(c.kind) > 1) =>
                    \E m \in 1..(n - 1) :
                        /\ calls[m].op = "get_all_active_by_window"
                        /\ calls[m].ok
                        /\ Rank(calls[m].kind) =
                              IF c.op = "notify" THEN Rank(c.kind)
                              ELSE Rank(c.kind) - 1
              /\ (c.op = "get_all_active_by_window" /\ Rank(c.kind) > 1) =>
                    \A j \in 1..MaxRecs :
                        j <= found[Rank(c.kind) - 1]
                            => \E m \in 1..(n - 1) :
                                  /\ calls[m].op = "notify"
                                  /\ Rank(calls[m].kind) = Rank(c.kind) - 1
                                  /\ calls[m].idx = j
              /\ (c.op = "get_all_active_by_window" /\ ~c.ok) =>
                    n = Len(calls) /\ pc = "raised"

\* the snapshots query raised after a volume's notification was made
C9_Witness ==
    /\ pc = "raised"
    /\ Len(calls) >= 3
    /\ calls[Len(calls)].kind = "snapshot"
    /\ calls[2].op = "notify" /\ calls[2].kind = "volume"

(* ---- C10 --------------------------------------------------------------- *)
\* C10 as stated: a run ends either by completing with status 0 or by the
\* window-validation exit.
C10_Original ==
    Terminated => \/ pc = "done" /\ exit_status = <<0>>
                  \/ pc = "exited"

\* how a run may end, and that a run whose three list queries have
\* returned can only go on to completion
EndsWell ==
    /\ pc = "done" =>
          /\ exit_status = <<0>>
          /\ kind = NKinds
          /\ \A k \in 1..NKinds, n \in 1..MaxRecs :
                n <= found[k] => <<k, n>> \in Processed
    /\ pc = "exited" => calls = <<>> /\ exit_status # <<0>>
    /\ RaisedByParseOrFetch
    /\ kind = NKinds => pc \in {"run", "done"}

\* an upper bound on the steps a run has left: the window step, the list
\* queries not yet made, the records not yet iterated over, the return
Remaining ==
    IF Terminated THEN 0
    ELSE (IF pc = "window" THEN 1 ELSE 0)
         + (NKinds - kind)
         + (IF kind >= 1 THEN found[kind] - i ELSE 0)
         + (stored - Fetched)
         + 1

\* C10 amended: every run ends, in one of three ways: it completes (all
\* three kinds fetched, every fetched record processed, status 0), it exits
\* non-zero on the window check before any call, or it dies of an exception
\* raised by strptime or by a list query; a run whose three list queries
\* have returned completes, whatever emissions fail.  Termination: a run
\* that has not ended can take a step, and every step lowers Remaining.
C10_Amended ==
    /\ []EndsWell
    /\ [](Terminated \/ ENABLED Next)
    /\ [][Remaining' < Remaining]_vars

\* a completed run during which an emission failed
C10_Witness ==
    /\ pc = "done"
    /\ Failures(calls) > 0
    /\ Fetched = MaxRecs

====
